---------------------------- MODULE Spec2Model ----------------------------
(***************************************************************************)
(* State-machine model of src/producers/news_producer.py: the __main__     *)
(* block, NewsProducer.__init__, fetch_news, send_to_kafka and run.        *)
(*                                                                         *)
(* The process is single-threaded; pc is the position of its one control   *)
(* flow.  The HTTP server, the Kafka broker, the wall clock and the        *)
(* interrupt signal are the environment: their answers are drawn from      *)
(* small sets.                                                             *)
(*                                                                         *)
(* Spec is the whole process.  SendSpec is one call of send_to_kafka on an *)
(* article of any shape.  CyclesSpec is run's while loop over several      *)
(* passes, with the history of what earlier passes sent.                   *)
(***************************************************************************)
EXTENDS Integers, Sequences, FiniteSets, TLC

(***************************************************************************)
(* Bounds of the model.                                                    *)
(***************************************************************************)
MaxArticles == 2     \* longest article array a response carries
MaxTicks    == 1     \* date changes observed during one run
MaxSigints  == 2     \* interrupt signals delivered to the process
EpochYear   == 2024  \* year whose 1 January is day 0 of the calendar
StartDay    == 59    \* day on which the process starts (2024-02-29)

(***************************************************************************)
(* Python values.  A dict is a function whose DOMAIN is its set of keys;   *)
(* the other values are tagged records, so that None, '' and 'Unknown'     *)
(* are three different values.                                             *)
(***************************************************************************)
None      == [t |-> "none"]
Str(s)    == [t |-> "str", s |-> s]
Num(n)    == [t |-> "num", n |-> n]
List(l)   == [t |-> "list", l |-> l]
Dict(d)   == [t |-> "dict", d |-> d]
EmptyDict == [k \in {} |-> None]

\* dict.get(key, default): the default only when the key is absent; a key
\* that is present with the value null yields None.
Get(d, k, default) == IF k \in DOMAIN d THEN d[k] ELSE default

(***************************************************************************)
(* Configuration imported from config.api_keys (lines 12-18).              *)
(***************************************************************************)
TRACKED_COMPANIES == <<"AAPL", "MSFT">>
COMPANY_MAPPING   == ("AAPL" :> "Apple") @@ ("MSFT" :> "Microsoft")
KAFKA_NEWS_TOPIC  == "news"
Placeholder       == "your_newsapi_key_here"
\* NEWS_API_KEY: not set (None), empty, the placeholder, or a key
ApiKeys           == {None, Str(""), Str(Placeholder), Str("k3y")}

\* line 175: producer.run(days_back=7, interval_seconds=3600)
DaysBackValues   == {7}
interval_seconds == 3600
PolitenessDelay  == 2
ErrorCooldown    == 60
AckTimeout       == 10

(***************************************************************************)
(* Calendar.  A date is its day number counted from 1 January EpochYear    *)
(* (datetime.date does arithmetic on the ordinal in the same way);         *)
(* isoformat turns it into the year, month and day that the text           *)
(* YYYY-MM-DD spells, fromisoformat is the way back.                       *)
(***************************************************************************)
IsLeap(y) == (y % 4 = 0 /\ y % 100 # 0) \/ y % 400 = 0

DaysInMonth(y, m) ==
    IF m = 2 THEN (IF IsLeap(y) THEN 29 ELSE 28)
    ELSE IF m \in {4, 6, 9, 11} THEN 30 ELSE 31

RECURSIVE DateOf(_, _, _)
DateOf(y, m, n) ==
    IF n < DaysInMonth(y, m) THEN <<y, m, n + 1>>
    ELSE IF m = 12 THEN DateOf(y + 1, 1, n - DaysInMonth(y, m))
    ELSE DateOf(y, m + 1, n - DaysInMonth(y, m))

isoformat(n) == DateOf(EpochYear, 1, n)

RECURSIVE DaysBefore(_, _)
DaysBefore(y, m) ==
    IF y = EpochYear /\ m = 1 THEN 0
    ELSE IF m = 1 THEN DaysBefore(y - 1, 12) + DaysInMonth(y - 1, 12)
    ELSE DaysBefore(y, m - 1) + DaysInMonth(y, m - 1)

fromisoformat(s) == DaysBefore(s[1], s[2]) + s[3] - 1

\* timedelta(days=days_back) taken from to_date (line 123)
DateRange_swapped(now, db) == [from_date |-> now, to_date |-> now - db]
DateRange(now, db) == [from_date |-> now - db, to_date |-> now]

(***************************************************************************)
(* Articles the API may return.  A key that is missing from the function   *)
(* is absent from the JSON object; None is JSON null.                      *)
(***************************************************************************)
A_full ==
    ("source" :> Dict(("id" :> None) @@ ("name" :> Str("Reuters"))))
    @@ ("author" :> Str("Ann")) @@ ("title" :> Str("Apple ships"))
    @@ ("description" :> Str("d")) @@ ("url" :> Str("http://n/1"))
    @@ ("publishedAt" :> Str("2024-02-28T10:00:00Z")) @@ ("content" :> Str("c"))
A_nullSource ==
    ("source" :> None) @@ ("author" :> Str("Bob")) @@ ("title" :> Str("Rumour"))
A_nullTitle ==
    ("source" :> Dict("name" :> Str("AP"))) @@ ("author" :> Str("Cy"))
    @@ ("title" :> None)

ArticleSamples == {A_full, A_nullSource, A_nullTitle}

ArticleSeqs == UNION {[1..n -> ArticleSamples] : n \in 0..MaxArticles}

\* Every shape one article can have as far as send_to_kafka looks at it:
\* each of the keys it reads is absent, null, or has a value; the source
\* may also be an object without a name, with a null name, or no object.
Absent == [t |-> "absent"]
Field(k, v) == IF v = Absent THEN EmptyDict ELSE (k :> v)
SourceValues ==
    {Absent, None, Dict(EmptyDict), Dict("name" :> None),
     Dict("name" :> Str("AP")), Str("AP")}
ArticleShapes ==
    {Field("source", s) @@ Field("author", a) @@ Field("title", t)
       @@ Field("url", u) :
         s \in SourceValues,
         a \in {Absent, None, Str("Ann")},
         t \in {Absent, None, Str("Apple ships")},
         u \in {Absent, None, Str("http://n/1")}}

(***************************************************************************)
(* HTTP responses.  NetFail is requests.get raising a RequestException     *)
(* (timeout, connection refused, DNS failure); otherwise a status code     *)
(* and a body, which is either not JSON at all or a JSON object.           *)
(***************************************************************************)
NetFail == [net |-> FALSE]
Http(code, body) == [net |-> TRUE, code |-> code, body |-> body]
NotJson == [json |-> FALSE]
Json(d) == [json |-> TRUE, data |-> d]

OkBody(arts) ==
    Json(("status" :> Str("ok")) @@ ("totalResults" :> Num(Len(arts)))
         @@ ("articles" :> List(arts)))
OkNoTotal(arts) == Json(("status" :> Str("ok")) @@ ("articles" :> List(arts)))
OkNoArticles == Json(("status" :> Str("ok")) @@ ("totalResults" :> Num(0)))
ErrBody ==
    Json(("status" :> Str("error")) @@ ("code" :> Str("rateLimited"))
         @@ ("message" :> Str("too many requests")))
ErrNoMessage == Json("status" :> Str("error"))
NoStatusBody == Json(("totalResults" :> Num(1)) @@ ("articles" :> List(<<A_full>>)))

StatusCodes == {200, 304, 404, 500}
SmallBodies ==
    {NotJson, NoStatusBody, ErrBody, ErrNoMessage, OkNoArticles,
     OkNoTotal(<<A_full>>), OkBody(<<A_full>>), OkBody(<<>>)}
Responses ==
    {NetFail}
    \cup {Http(c, b) : c \in StatusCodes, b \in SmallBodies}
    \cup {Http(200, OkBody(arts)) : arts \in ArticleSeqs}
NoResponse == [net |-> FALSE, none |-> TRUE]


(***************************************************************************)
(* fetch_news, lines 52-66: what it does with the answer of requests.get.  *)
(* It either returns a list of articles or lets an exception escape.       *)
(***************************************************************************)
Returned(arts, ev) == [raised |-> FALSE, articles |-> arts, event |-> ev]
Raised(exc)        == [raised |-> TRUE, exc |-> exc]

\* response.raise_for_status(): HTTPError for a 4xx or 5xx status only
RaisesForStatus_only5xx(code) == 500 <= code /\ code < 600
RaisesForStatus(code) == 400 <= code /\ code < 600

\* lines 57-62, on the parsed body
OnData(data) ==
    IF "status" \notin DOMAIN data THEN {Raised("KeyError")}
    ELSE IF data["status"] = Str("ok")
    THEN IF "totalResults" \notin DOMAIN data THEN {Raised("KeyError")}
         ELSE IF "articles" \notin DOMAIN data THEN {Raised("KeyError")}
         ELSE {Returned(data["articles"].l, "fetched")}
    ELSE {Returned(<<>>, "api_error")}

\* The except clause of line 64 catches RequestException: a failed
\* requests.get, the HTTPError of raise_for_status, and the JSONDecodeError
\* of response.json() in requests >= 2.27; older releases raise a plain
\* ValueError there, which line 64 does not catch.
\* The event is the line fetch_news prints, with the exception it names.
fetch_news(r) ==
    IF ~r.net THEN {Returned(<<>>, "request_failed_ConnectionError")}
    ELSE IF RaisesForStatus(r.code) THEN {Returned(<<>>, "request_failed_HTTPError")}
    ELSE IF ~r.body.json
    THEN {Returned(<<>>, "request_failed_JSONDecodeError"), Raised("ValueError")}
    ELSE OnData(r.body.data)

(***************************************************************************)
(* send_to_kafka, lines 77-104.                                            *)
(***************************************************************************)
\* line 80: article.get('source', {}).get('name', 'Unknown') raises
\* AttributeError when the source is present but is not an object
EnrichRaises(article) == Get(article, "source", Dict(EmptyDict)).t # "dict"

\* lines 77-88
Enrich(company_symbol, article, now) ==
    [company_symbol |-> Str(company_symbol),
     company_name   |-> Str(Get(COMPANY_MAPPING, company_symbol, company_symbol)),
     source         |-> Get(Get(article, "source", Dict(EmptyDict)).d,
                            "name", Str("Unknown")),
     author         |-> Get(article, "author", Str("Unknown")),
     title          |-> Get(article, "title", Str("")),
     description    |-> Get(article, "description", Str("")),
     url            |-> Get(article, "url", Str("")),
     published_at   |-> Get(article, "publishedAt", Str("")),
     content        |-> Get(article, "content", Str("")),
     fetched_at     |-> Str(isoformat(now))]

\* line 100: message['title'][:60] raises TypeError unless the title can
\* be sliced
PrintRaises(message) == message.title.t \notin {"str", "list"}

\* lines 26-27: the serializers given to KafkaProducer
key_serializer(k)   == IF k = "" THEN None ELSE [utf8 |-> k]
value_serializer(v) == [utf8 |-> [json |-> v]]

\* line 94: the key handed to producer.send
PartitionKey_name(company_symbol) ==
    Get(COMPANY_MAPPING, company_symbol, company_symbol)
PartitionKey(company_symbol) == company_symbol

\* lines 92-96: the record producer.send is called with
ProducerRecord(company_symbol, article, now) ==
    [topic |-> KAFKA_NEWS_TOPIC,
     key   |-> key_serializer(PartitionKey(company_symbol)),
     value |-> value_serializer(Enrich(company_symbol, article, now))]

(***************************************************************************)
(* State.                                                                  *)
(***************************************************************************)
VARIABLES
    pc,          \* position of the control flow (see the actions)
    api_key,     \* NEWS_API_KEY
    days_back,   \* run's parameter
    today,       \* datetime.utcnow().date(), the wall clock's date
    to_date,     \* run's local, line 122
    from_date,   \* run's local, line 123
    idx,         \* how many entries of TRACKED_COMPANIES the for loop took
    articles,    \* articles of the current company still to be sent,
                 \* the one being sent first
    response,    \* what requests.get gave, until fetch_news has handled it
    kafkaResult, \* what producer.send and future.get gave for the record
                 \* being sent: "none", "metadata" or "KafkaError"
    producer,    \* the KafkaProducer: "none", "open" or "closed"
    flushes,     \* calls of producer.flush()
    closes,      \* calls of producer.close()
    exitStatus,  \* exit status of the process, -1 while it runs
    sleepSecs,   \* argument of the time.sleep call in progress, 0 if none
    caught,      \* exception the loop's "except Exception" caught last
    event,       \* what the process did last (its last line of output)
    sigints,     \* interrupt signals delivered so far
    fetchLog,    \* this cycle's HTTP queries, in order
    fetched,     \* this cycle's articles returned by fetch_news, in order,
                 \* each with the company it was fetched for
    publog,      \* this cycle's producer.send calls, in order
    lastSleep,   \* seconds of the latest time.sleep call that returned since
                 \* the latest HTTP request; 0 if none has, -1 while no
                 \* request has been made
    earlier      \* history: the articles, each with its company, that
                 \* producer.send was called for in earlier passes of the
                 \* while loop; CyclesSpec records it

vars == <<pc, api_key, days_back, today, to_date, from_date, idx, articles,
          response, kafkaResult, producer, flushes, closes, exitStatus, sleepSecs, caught,
          event, sigints, fetchLog, fetched, publog, lastSleep, earlier>>

config  == <<api_key, days_back>>
window  == <<to_date, from_date>>
cleanup == <<producer, flushes, closes, exitStatus>>
logs    == <<fetchLog, fetched, publog>>

\* positions inside the try block of lines 120-149
TryBody_sleeps == {"delay", "interval"}
TryBody == {"cycle", "for", "fetch", "fetched", "publish", "ack", "acked",
            "delay", "interval"}
\* positions of run(); those outside the try block are the except handler's
\* sleep (line 156) and the clean-up (lines 159-160)
RunPositions == {"cycle", "for", "fetch", "fetched", "publish", "ack", "acked",
                 "delay", "interval", "cooldown", "flush", "close"}

Init ==
    /\ pc = "main"
    /\ api_key \in ApiKeys
    /\ days_back \in DaysBackValues
    /\ today = StartDay
    /\ to_date = 0
    /\ from_date = 0
    /\ idx = 0
    /\ articles = <<>>
    /\ response = NoResponse
    /\ kafkaResult = "none"
    /\ producer = "none"
    /\ flushes = 0
    /\ closes = 0
    /\ exitStatus = -1
    /\ sleepSecs = 0
    /\ caught = "none"
    /\ event = "start"
    /\ sigints = 0
    /\ fetchLog = <<>>
    /\ fetched = <<>>
    /\ publog = <<>>
    /\ lastSleep = -1
    /\ earlier = {}

(***************************************************************************)
(* Transfers of control shared by the actions.                             *)
(***************************************************************************)
\* time.sleep(secs) entered at position p
Sleep(p, secs) == pc' = p /\ sleepSecs' = secs

\* lines 154-156: an exception that escaped the try body is caught by
\* "except Exception", printed, and the loop sleeps 60 s
LoopExcept_resume(exc) ==
    /\ caught' = exc
    /\ event' = "unexpected_error"
    /\ Sleep("delay", PolitenessDelay)
LoopExcept_break(exc) ==
    /\ caught' = exc
    /\ event' = "unexpected_error"
    /\ pc' = "flush"
    /\ sleepSecs' = 0
LoopExcept_nosleep(exc) ==
    /\ caught' = exc
    /\ event' = "unexpected_error"
    /\ pc' = "cycle"
    /\ sleepSecs' = 0
LoopExcept(exc) ==
    /\ caught' = exc
    /\ event' = "unexpected_error"
    /\ Sleep("cooldown", ErrorCooldown)

\* lines 138-142: the for loop over the articles takes the next one, or
\* ends and the politeness delay starts
NextArticle_nodelay(rest) ==
    /\ articles' = rest
    /\ IF rest = <<>> THEN pc' = "for" /\ sleepSecs' = 0
       ELSE pc' = "publish" /\ sleepSecs' = 0
NextArticle_dedup(rest) ==
    LET Fresh(a) == [company_symbol |-> TRACKED_COMPANIES[idx], article |-> a]
                        \notin earlier
        kept == SelectSeq(rest, Fresh)
    IN  /\ articles' = kept
        /\ IF kept = <<>> THEN Sleep("delay", PolitenessDelay)
           ELSE pc' = "publish" /\ sleepSecs' = 0
NextArticle(rest) ==
    /\ articles' = rest
    /\ IF rest = <<>> THEN Sleep("delay", PolitenessDelay)
       ELSE pc' = "publish" /\ sleepSecs' = 0

(***************************************************************************)
(* __main__, lines 164-175, and NewsProducer.__init__, lines 22-30.        *)
(***************************************************************************)
\* line 166: not NEWS_API_KEY or NEWS_API_KEY == 'your_newsapi_key_here'
NotConfigured_falsyOnly(key) == key = None \/ key = Str("")
NotConfigured(key) == key = None \/ key = Str("") \/ key = Str(Placeholder)

MainCheck ==
    /\ pc = "main"
    /\ IF NotConfigured(api_key)
       THEN pc' = "exited" /\ exitStatus' = 1 /\ event' = "not_configured"
       ELSE pc' = "init" /\ exitStatus' = exitStatus /\ event' = "configured"
    /\ UNCHANGED <<earlier, lastSleep, config, today, window, idx, articles, response, kafkaResult, producer,
                   flushes, closes, sleepSecs, caught, sigints, logs>>

\* KafkaProducer(...) connects to the bootstrap servers; then run() is
\* entered and prints its banner (lines 114-117)
Construct ==
    /\ pc = "init"
    /\ producer' = "open"
    /\ pc' = "cycle"
    /\ event' = "banner"
    /\ UNCHANGED <<earlier, lastSleep, config, today, window, idx, articles, response, kafkaResult, flushes,
                   closes, exitStatus, sleepSecs, caught, sigints, logs>>

\* KafkaProducer(...) raises NoBrokersAvailable: nothing catches it
ConstructFails ==
    /\ pc = "init"
    /\ pc' = "exited"
    /\ exitStatus' = 1
    /\ event' = "traceback"
    /\ UNCHANGED <<earlier, lastSleep, config, today, window, idx, articles, response, kafkaResult, producer,
                   flushes, closes, sleepSecs, caught, sigints, logs>>

(***************************************************************************)
(* run, lines 119-161.                                                     *)
(***************************************************************************)
\* lines 120-123: a new pass of the while loop computes the date range
BeginPass ==
    /\ pc = "cycle"
    /\ to_date' = DateRange(today, days_back).to_date
    /\ from_date' = DateRange(today, days_back).from_date
    /\ idx' = 0
    /\ articles' = <<>>
    /\ fetchLog' = <<>>
    /\ fetched' = <<>>
    /\ publog' = <<>>
    /\ pc' = "for"
    /\ event' = "cycle_start"
    /\ UNCHANGED <<lastSleep, config, today, response, kafkaResult, cleanup,
                   sleepSecs, caught, sigints>>

CycleStart == BeginPass /\ earlier' = earlier

\* the same step, with the producer.send calls of the pass that ended
\* added to the history
SentIn(log, done) ==
    {[company_symbol |-> done[i].company_symbol, article |-> done[i].article] :
        i \in 1..Len(log)}

CycleStartRecorded == BeginPass /\ earlier' = earlier \cup SentIn(publog, fetched)

\* lines 126-135: the for loop takes the next company and fetch_news sends
\* its query (lines 42-53)
Query(company_symbol, from, to) ==
    [company_symbol |-> company_symbol,
     q    |-> Get(COMPANY_MAPPING, company_symbol, company_symbol),
     from |-> isoformat(from),
     to   |-> isoformat(to)]

ForCompany ==
    /\ pc = "for"
    /\ idx < Len(TRACKED_COMPANIES)
    /\ idx' = idx + 1
    /\ fetchLog' = Append(fetchLog,
                          Query(TRACKED_COMPANIES[idx + 1], from_date, to_date))
    /\ pc' = "fetch"
    /\ event' = "fetching"
    /\ lastSleep' = 0
    /\ UNCHANGED <<earlier, config, today, window, articles, response, kafkaResult, cleanup,
                   sleepSecs, caught, sigints, fetched, publog>>

\* lines 144-149: the for loop is exhausted, the batch is complete
BatchComplete ==
    /\ pc = "for"
    /\ idx = Len(TRACKED_COMPANIES)
    /\ Sleep("interval", interval_seconds)
    /\ event' = "batch_complete"
    /\ UNCHANGED <<earlier, lastSleep, config, today, window, idx, articles, response, kafkaResult, cleanup,
                   caught, sigints, logs>>

\* line 53: requests.get returns a response or raises
HttpReturn ==
    /\ pc = "fetch"
    /\ \E r \in Responses : response' = r
    /\ pc' = "fetched"
    /\ event' = "response"
    /\ UNCHANGED <<earlier, lastSleep, config, today, window, idx, articles, kafkaResult, cleanup,
                   sleepSecs, caught, sigints, logs>>

\* lines 54-66 and 136-138: fetch_news handles the response; run starts on
\* the articles it returned
FetchNewsReturns_retry ==
    /\ pc = "fetched"
    /\ \E o \in fetch_news(response) :
         /\ ~o.raised
         /\ event' = o.event
         /\ IF o.event \in {"fetched", "api_error"}
            THEN /\ fetched' = fetched \o
                      [i \in 1..Len(o.articles) |->
                         [company_symbol |-> TRACKED_COMPANIES[idx],
                          article |-> o.articles[i]]]
                 /\ NextArticle(o.articles)
                 /\ fetchLog' = fetchLog
            ELSE /\ fetchLog' = Append(fetchLog, fetchLog[Len(fetchLog)])
                 /\ pc' = "fetch"
                 /\ UNCHANGED <<fetched, articles, sleepSecs>>
    /\ response' = NoResponse
    /\ UNCHANGED <<earlier, lastSleep, config, today, window, idx, kafkaResult,
                   cleanup, caught, sigints, publog>>
FetchNewsReturns ==
    /\ pc = "fetched"
    /\ \E o \in fetch_news(response) :
         /\ ~o.raised
         /\ fetched' = fetched \o
              [i \in 1..Len(o.articles) |->
                 [company_symbol |-> TRACKED_COMPANIES[idx],
                  article |-> o.articles[i]]]
         /\ event' = o.event
         /\ NextArticle(o.articles)
    /\ response' = NoResponse
    /\ UNCHANGED <<earlier, lastSleep, config, today, window, idx, kafkaResult, cleanup, caught,
                   sigints, fetchLog, publog>>

\* lines 55-59: an exception fetch_news does not catch reaches run
FetchNewsRaises ==
    /\ pc = "fetched"
    /\ \E o \in fetch_news(response) :
         /\ o.raised
         /\ LoopExcept(o.exc)
    /\ response' = NoResponse
    /\ UNCHANGED <<earlier, lastSleep, config, today, window, idx, articles, kafkaResult, cleanup,
                   sigints, logs>>

\* line 80: building the message raises; nothing in send_to_kafka catches
\* an AttributeError
EnrichFails ==
    /\ pc = "publish"
    /\ EnrichRaises(Head(articles))
    /\ LoopExcept("AttributeError")
    /\ UNCHANGED <<earlier, lastSleep, config, today, window, idx, articles, response, kafkaResult,
                   cleanup, sigints, logs>>

\* lines 77-99: the message is built, producer.send is called with it and
\* the caller waits for the broker
ProducerSend ==
    /\ pc = "publish"
    /\ ~EnrichRaises(Head(articles))
    /\ publog' = Append(publog,
                        ProducerRecord(TRACKED_COMPANIES[idx], Head(articles), today))
    /\ kafkaResult' = "none"
    /\ pc' = "ack"
    /\ event' = "send"
    /\ UNCHANGED <<earlier, lastSleep, config, today, window, idx, articles, response, cleanup,
                   sleepSecs, caught, sigints, fetchLog, fetched>>

\* lines 92-99: future.get(timeout=10) returns the record's metadata, or
\* producer.send or future.get raises a KafkaError (broker unreachable, the
\* send failed, no acknowledgment within AckTimeout)
BrokerReply ==
    /\ pc = "ack"
    /\ \E res \in {"metadata", "KafkaError"} : kafkaResult' = res
    /\ pc' = "acked"
    /\ event' = "reply"
    /\ UNCHANGED <<earlier, lastSleep, config, today, window, idx, articles, response, cleanup,
                   sleepSecs, caught, sigints, logs>>

\* lines 100-101: the title is printed and send_to_kafka returns
Acked ==
    /\ pc = "acked"
    /\ kafkaResult = "metadata"
    /\ ~PrintRaises(Enrich(TRACKED_COMPANIES[idx], Head(articles), today))
    /\ event' = "sent"
    /\ NextArticle(Tail(articles))
    /\ kafkaResult' = "none"
    /\ UNCHANGED <<earlier, lastSleep, config, today, window, idx, response, cleanup, caught,
                   sigints, logs>>

\* lines 100-101: printing the title raises a TypeError, which
\* "except KafkaError" does not catch
AckedPrintFails ==
    /\ pc = "acked"
    /\ kafkaResult = "metadata"
    /\ PrintRaises(Enrich(TRACKED_COMPANIES[idx], Head(articles), today))
    /\ LoopExcept("TypeError")
    /\ kafkaResult' = "none"
    /\ UNCHANGED <<earlier, lastSleep, config, today, window, idx, articles, response, cleanup,
                   sigints, logs>>

\* lines 103-104: "except KafkaError" prints the failure and send_to_kafka
\* returns normally
OnKafkaError_escapes ==
    /\ LoopExcept("KafkaError")
    /\ articles' = articles
OnKafkaError ==
    /\ event' = "failed_to_send"
    /\ caught' = caught
    /\ NextArticle(Tail(articles))

KafkaErrorCaught ==
    /\ pc = "acked"
    /\ kafkaResult = "KafkaError"
    /\ OnKafkaError
    /\ kafkaResult' = "none"
    /\ UNCHANGED <<earlier, lastSleep, config, today, window, idx, response, cleanup, sigints,
                   logs>>

\* line 142: time.sleep(2) returns
DelayDone ==
    /\ pc = "delay"
    /\ pc' = "for"
    /\ sleepSecs' = 0
    /\ event' = "delay_done"
    /\ lastSleep' = sleepSecs
    /\ UNCHANGED <<earlier, config, today, window, idx, articles, response, kafkaResult, cleanup,
                   caught, sigints, logs>>

\* line 149: time.sleep(interval_seconds) returns, back to "while True"
IntervalDone ==
    /\ pc = "interval"
    /\ pc' = "cycle"
    /\ sleepSecs' = 0
    /\ event' = "interval_done"
    /\ lastSleep' = sleepSecs
    /\ UNCHANGED <<earlier, config, today, window, idx, articles, response, kafkaResult, cleanup,
                   caught, sigints, logs>>

\* line 156: time.sleep(60) returns, back to "while True"
CooldownDone ==
    /\ pc = "cooldown"
    /\ pc' = "cycle"
    /\ sleepSecs' = 0
    /\ event' = "cooldown_done"
    /\ lastSleep' = sleepSecs
    /\ UNCHANGED <<earlier, config, today, window, idx, articles, response, kafkaResult, cleanup,
                   caught, sigints, logs>>

\* lines 151-153: KeyboardInterrupt is raised in the main thread wherever
\* it is, blocking calls included; inside the try block it is caught and
\* the loop is left
InterruptInTry ==
    /\ pc \in TryBody
    /\ sigints < MaxSigints
    /\ sigints' = sigints + 1
    /\ pc' = "flush"
    /\ sleepSecs' = 0
    /\ event' = "shutting_down"
    /\ UNCHANGED <<earlier, lastSleep, config, today, window, idx, articles, response, kafkaResult, cleanup,
                   caught, logs>>

\* lines 156 and 159-160 are outside the try block: a KeyboardInterrupt
\* raised there leaves run() and ends the process with SIGINT's status
InterruptOutsideTry ==
    /\ pc \in RunPositions \ TryBody
    /\ sigints < MaxSigints
    /\ sigints' = sigints + 1
    /\ pc' = "exited"
    /\ exitStatus' = 130
    /\ sleepSecs' = 0
    /\ event' = "traceback"
    /\ UNCHANGED <<earlier, lastSleep, config, today, window, idx, articles, response, kafkaResult, producer,
                   flushes, closes, caught, logs>>

\* line 159
Flush ==
    /\ pc = "flush"
    /\ flushes' = flushes + 1
    /\ pc' = "close"
    /\ event' = "flushed"
    /\ UNCHANGED <<earlier, lastSleep, config, today, window, idx, articles, response, kafkaResult, producer,
                   closes, exitStatus, sleepSecs, caught, sigints, logs>>

\* lines 160-161: close, the last print, run returns and the script ends
Close ==
    /\ pc = "close"
    /\ closes' = closes + 1
    /\ producer' = "closed"
    /\ pc' = "exited"
    /\ exitStatus' = 0
    /\ event' = "stopped"
    /\ UNCHANGED <<earlier, lastSleep, config, today, window, idx, articles, response, kafkaResult, flushes,
                   sleepSecs, caught, sigints, logs>>

\* the date changes while run() executes
Tick ==
    /\ pc \in RunPositions
    /\ today < StartDay + MaxTicks
    /\ today' = today + 1
    /\ UNCHANGED <<pc, earlier, lastSleep, config, window, idx, articles, response, kafkaResult, cleanup,
                   sleepSecs, caught, event, sigints, logs>>

Next ==
    \/ MainCheck
    \/ Construct
    \/ ConstructFails
    \/ CycleStart
    \/ ForCompany
    \/ BatchComplete
    \/ HttpReturn
    \/ FetchNewsReturns
    \/ FetchNewsRaises
    \/ EnrichFails
    \/ ProducerSend
    \/ BrokerReply
    \/ Acked
    \/ AckedPrintFails
    \/ KafkaErrorCaught
    \/ DelayDone
    \/ IntervalDone
    \/ CooldownDone
    \/ InterruptInTry
    \/ InterruptOutsideTry
    \/ Flush
    \/ Close
    \/ Tick

Spec == Init /\ [][Next]_vars

(***************************************************************************)
(* One call of send_to_kafka (lines 68-104) on an article of any shape,    *)
(* made by the for loop of line 138 for either company.                    *)
(***************************************************************************)
SendInit ==
    /\ pc = "publish"
    /\ api_key = Str("k3y")
    /\ days_back \in DaysBackValues
    /\ today = StartDay
    /\ to_date = DateRange(today, days_back).to_date
    /\ from_date = DateRange(today, days_back).from_date
    /\ idx \in 1..Len(TRACKED_COMPANIES)
    /\ \E a \in ArticleShapes :
         /\ articles = <<a>>
         /\ fetched = <<[company_symbol |-> TRACKED_COMPANIES[idx],
                         article |-> a]>>
    /\ response = NoResponse
    /\ kafkaResult = "none"
    /\ producer = "open"
    /\ flushes = 0
    /\ closes = 0
    /\ exitStatus = -1
    /\ sleepSecs = 0
    /\ caught = "none"
    /\ event = "fetched"
    /\ sigints = 0
    /\ fetchLog = [i \in 1..idx |->
                     Query(TRACKED_COMPANIES[i], from_date, to_date)]
    /\ publog = <<>>
    /\ lastSleep = 0
    /\ earlier = {}

SendNext ==
    \/ EnrichFails
    \/ ProducerSend
    \/ BrokerReply
    \/ Acked
    \/ AckedPrintFails
    \/ KafkaErrorCaught

SendSpec == SendInit /\ [][SendNext]_vars

(***************************************************************************)
(* run's while loop (lines 119-156) from its first pass on, within one day *)
(* and left alone by the interrupt signal, with the history of what        *)
(* earlier passes sent.                                                    *)
(***************************************************************************)
CyclesInit ==
    /\ pc = "cycle"
    /\ api_key = Str("k3y")
    /\ days_back \in DaysBackValues
    /\ today = StartDay
    /\ to_date = 0
    /\ from_date = 0
    /\ idx = 0
    /\ articles = <<>>
    /\ response = NoResponse
    /\ kafkaResult = "none"
    /\ producer = "open"
    /\ flushes = 0
    /\ closes = 0
    /\ exitStatus = -1
    /\ sleepSecs = 0
    /\ caught = "none"
    /\ event = "banner"
    /\ sigints = 0
    /\ fetchLog = <<>>
    /\ fetched = <<>>
    /\ publog = <<>>
    /\ lastSleep = -1
    /\ earlier = {}

CyclesNext ==
    \/ CycleStartRecorded
    \/ ForCompany
    \/ BatchComplete
    \/ HttpReturn
    \/ FetchNewsReturns
    \/ FetchNewsRaises
    \/ EnrichFails
    \/ ProducerSend
    \/ BrokerReply
    \/ Acked
    \/ AckedPrintFails
    \/ KafkaErrorCaught
    \/ DelayDone
    \/ IntervalDone
    \/ CooldownDone

CyclesSpec == CyclesInit /\ [][CyclesNext]_vars

(***************************************************************************)
(* Properties.                                                             *)
(***************************************************************************)
Symbols      == {TRACKED_COMPANIES[i] : i \in 1..Len(TRACKED_COMPANIES)}
DisplayNames == {COMPANY_MAPPING[c] : c \in DOMAIN COMPANY_MAPPING}
Days         == StartDay..(StartDay + MaxTicks)

\* C1: every record handed to producer.send carries as its key the encoded
\* symbol of a tracked company - the one whose articles are being sent -
\* and never the display name, which is what the HTTP query searches for.
C1_KeyIsSymbol ==
    /\ \A i \in 1..Len(publog) :
         /\ publog[i].key \in {[utf8 |-> c] : c \in Symbols}
         /\ publog[i].key \notin {[utf8 |-> n] : n \in DisplayNames}
    /\ pc \in {"ack", "acked"} =>
         /\ publog[Len(publog)].key = [utf8 |-> TRACKED_COMPANIES[idx]]
         /\ fetchLog[Len(fetchLog)].q = COMPANY_MAPPING[TRACKED_COMPANIES[idx]]
         /\ fetchLog[Len(fetchLog)].company_symbol = TRACKED_COMPANIES[idx]

\* MSFT's article is sent after AAPL's, each under its own symbol
C1_Witness ==
    /\ pc = "acked"
    /\ idx = 2
    /\ Len(publog) = 2
    /\ publog[1].key = [utf8 |-> "AAPL"]
    /\ publog[2].key = [utf8 |-> "MSFT"]

\* the record producer.send gets for a fetched article, whatever the date
\* of the call
IsSendOf(rec, f) ==
    /\ ~EnrichRaises(f.article)
    /\ \E d \in Days : rec = ProducerRecord(f.company_symbol, f.article, d)

\* C2: within a cycle the producer.send calls are exactly the fetched
\* articles, company by company in configured order and in the order each
\* fetch returned them: at any moment the calls made so far are a prefix of
\* what was fetched, and whenever the loop is between two companies, after
\* the last one, or has ended the cycle, nothing fetched is left unsent.
C2_PublishSequence ==
    /\ Len(publog) <= Len(fetched)
    /\ \A i \in 1..Len(publog) : IsSendOf(publog[i], fetched[i])
    /\ pc \in {"for", "delay", "interval", "cooldown", "cycle"} =>
         Len(publog) = Len(fetched)

\* C3 as stated, its first part: after a response that is not 2xx, or a
\* network failure, fetch_news hands run no article to publish.
C3_NonSuccessNoArticles ==
    [][(/\ pc = "fetched"
        /\ pc' # pc
        /\ sigints' = sigints
        /\ (~response.net \/ response.code \notin 200..299))
       => (articles' = <<>> /\ fetched' = fetched)]_vars

\* C3, amended: after a 4xx or 5xx response or a network failure,
\* fetch_news returns no article and raises nothing, nothing is published
\* for the company, and after the politeness delay the for loop takes the
\* next configured company of the same cycle.
C3_ErrorStatusSkipsCompany ==
    /\ [][(/\ pc = "fetched"
           /\ pc' # pc
           /\ sigints' = sigints
           /\ (~response.net \/ (response.code >= 400 /\ response.code < 600)))
          => (/\ articles' = <<>>
              /\ fetched' = fetched
              /\ publog' = publog
              /\ caught' = caught
              /\ idx' = idx
              /\ pc' = "delay"
              /\ sleepSecs' = PolitenessDelay)]_vars
    /\ [][(pc = "delay" /\ pc' # pc /\ sigints' = sigints)
          => (pc' = "for" /\ idx' = idx /\ UNCHANGED logs)]_vars
    /\ [][(/\ pc = "for"
           /\ pc' # pc
           /\ sigints' = sigints
           /\ idx < Len(TRACKED_COMPANIES))
          => (/\ pc' = "fetch"
              /\ Len(fetchLog') = Len(fetchLog) + 1
              /\ fetchLog'[Len(fetchLog')].company_symbol
                   = TRACKED_COMPANIES[idx + 1]
              /\ UNCHANGED <<to_date, from_date>>)]_vars

\* AAPL's fetch got a 4xx/5xx answer; the loop is in the politeness delay
\* with nothing to publish
C3_Witness ==
    /\ pc = "delay"
    /\ event = "request_failed_HTTPError"
    /\ idx = 1
    /\ articles = <<>>
    /\ publog = <<>>
    /\ caught = "none"

\* C4: a 2xx response whose body has no status marker, or one that is not
\* 'ok', counts as zero articles: fetch_news raises nothing and the loop
\* goes on to the politeness delay and the next company.
C4_MalformedBodyIsEmpty ==
    [][(/\ pc = "fetched"
        /\ pc' # pc
        /\ sigints' = sigints
        /\ response.net
        /\ response.code \in 200..299
        /\ response.body.json
        /\ Get(response.body.data, "status", None) # Str("ok"))
       => (/\ articles' = <<>>
           /\ caught' = caught
           /\ pc' = "delay")]_vars

\* C5: a run that got an interrupt signal ends with the producer flushed
\* once, then closed once, and exit status 0.
C5_GracefulShutdown ==
    (pc = "exited" /\ sigints = 1)
        => (flushes = 1 /\ closes = 1 /\ producer = "closed" /\ exitStatus = 0)

\* C6 as stated: a fetch or a publish in flight is never cut short by the
\* signal; it ends by its own completion or failure.
C6_CallsRunToCompletion ==
    [][/\ pc = "fetch" => pc' \in {"fetch", "fetched"}
       /\ pc = "ack" => pc' \in {"ack", "acked"}]_vars

\* C6, amended: cancellation is preemptive inside the try block.  A signal
\* that arrives at any position of the try block - a fetch or a publish in
\* flight, the politeness delay, the interval sleep - takes the loop to the
\* clean-up at once: the call in flight is abandoned, the articles and
\* companies still to come are skipped, and no fetch or publish follows.
C6_PreemptiveCancellation ==
    /\ [][(/\ sigints' # sigints
           /\ pc \in {"cycle", "for", "fetch", "fetched", "publish", "ack",
                      "acked", "delay", "interval"})
          => (pc' = "flush" /\ articles' = articles /\ UNCHANGED logs)]_vars
    /\ [][(pc \in {"flush", "close", "exited"})
          => (pc' \in {"flush", "close", "exited"} /\ UNCHANGED logs)]_vars

\* the signal arrived while the first of two articles was being published
C6_Witness ==
    /\ pc = "flush"
    /\ sigints = 1
    /\ Len(articles) = 2
    /\ Len(publog) = 1
    /\ idx = 1

\* the next step of the call in progress raises an exception that neither
\* fetch_news nor send_to_kafka catches
EscapesHere ==
    \/ pc = "publish" /\ EnrichRaises(Head(articles))
    \/ /\ pc = "acked"
       /\ kafkaResult = "metadata"
       /\ Get(Head(articles), "title", Str("")).t = "none"
    \/ /\ pc = "fetched"
       /\ response.net
       /\ response.code < 400
       /\ response.body.json
       /\ \/ "status" \notin DOMAIN response.body.data
          \/ /\ response.body.data["status"] = Str("ok")
             /\ {"totalResults", "articles"} \ DOMAIN response.body.data # {}

\* C7: an exception that escapes fetch_news or send_to_kafka (a KeyError on
\* the body, the AttributeError of a null source, the TypeError of a null
\* title) is caught by the loop: the process goes on, sleeps ErrorCooldown
\* seconds, and then starts a new cycle with the first company.
C7_CaughtCooldownRetry ==
    /\ [][(EscapesHere /\ pc' # pc /\ sigints' = sigints)
          => (/\ pc' = "cooldown"
              /\ sleepSecs' = ErrorCooldown
              /\ caught' # "none"
              /\ UNCHANGED <<producer, flushes, closes, exitStatus>>)]_vars
    /\ [][(pc = "cooldown" /\ pc' # pc /\ sigints' = sigints)
          => pc' = "cycle"]_vars
    /\ [][(pc = "cycle" /\ pc' # pc /\ sigints' = sigints)
          => (pc' = "for" /\ idx' = 0 /\ fetchLog' = <<>>)]_vars

\* a new cycle queries the first company after a null source was caught
C7_Witness ==
    /\ pc = "fetch"
    /\ idx = 1
    /\ caught = "AttributeError"
    /\ sigints = 0

\* C8: a KafkaError from producer.send or future.get stays inside
\* send_to_kafka: the loop catches nothing, the article is taken off the
\* list without a second producer.send for it, and the for loop goes on
\* with the next article, or with the politeness delay and the next
\* company when it was the last.
C8_PublishFailureIsLocal ==
    /\ [][(/\ pc = "acked"
           /\ kafkaResult = "KafkaError"
           /\ pc' # "acked"
           /\ sigints' = sigints)
          => (/\ articles' = Tail(articles)
              /\ caught' = caught
              /\ UNCHANGED <<logs, idx>>
              /\ pc' = (IF Tail(articles) = <<>> THEN "delay" ELSE "publish"))]_vars
    /\ [](pc \in {"publish", "ack", "acked", "delay"}
          => Len(publog) + Len(articles)
               = Len(fetched) + (IF pc \in {"ack", "acked"} THEN 1 ELSE 0))

\* the publish of the first of two articles has just failed; the second
\* one is next, and the first was sent once
C8_Witness ==
    /\ pc = "publish"
    /\ event = "failed_to_send"
    /\ caught = "none"
    /\ Len(fetched) = 2
    /\ Len(publog) = 1
    /\ Len(articles) = 1
    /\ articles[1] = fetched[2].article

\* C9: run() leaves its loop only when an interrupt signal is delivered;
\* no failure of a fetch or a publish and no unexpected error ends the loop
\* or leaves run().
C9_OnlyInterruptLeavesLoop ==
    /\ [][(/\ pc \in {"cycle", "for", "fetch", "fetched", "publish", "ack",
                      "acked", "delay", "interval", "cooldown"}
           /\ pc' \in {"flush", "close", "exited"})
          => sigints' = sigints + 1]_vars
    /\ [](pc \in {"flush", "close"} \/ (pc = "exited" /\ producer # "none")
          => sigints >= 1)

\* the loop survived a KeyError and was left on the interrupt
C9_Witness ==
    /\ pc = "flush"
    /\ sigints = 1
    /\ caught = "KeyError"

\* C10: every query of a cycle carries the same window, from <= to with
\* to - from = days_back, and the window is the one computed from the date
\* read when the cycle started, read anew at the start of every cycle.
C10_DateWindow ==
    /\ [](\A i \in 1..Len(fetchLog) :
            /\ fromisoformat(fetchLog[i].from) <= fromisoformat(fetchLog[i].to)
            /\ fromisoformat(fetchLog[i].to) - fromisoformat(fetchLog[i].from)
                 = days_back
            /\ fetchLog[i].to = fetchLog[1].to
            /\ fetchLog[i].from = fetchLog[1].from
            /\ fromisoformat(fetchLog[i].to) = to_date)
    /\ [][(pc = "cycle" /\ pc' = "for") => to_date' = today]_vars

\* the date changed during the cycle; the second company is queried with
\* the window of the cycle's start
C10_Witness ==
    /\ Len(fetchLog) = 2
    /\ pc = "fetch"
    /\ to_date = StartDay
    /\ today = StartDay + 1
    /\ fetchLog[2].to = <<2024, 2, 29>>
    /\ fetchLog[2].from = <<2024, 2, 22>>

\* the message inside the i-th record handed to producer.send
MessageOf(rec) == rec.value.utf8.json

\* the source of the article names no source: no source object, an object
\* without the key, or a null name
SourceNameMissing(article) ==
    \/ Get(article, "source", None) = None
    \/ /\ Get(article, "source", None).t = "dict"
       /\ Get(article["source"].d, "name", None) = None

\* C11: the message built for an article whose author or source name is
\* missing (absent or null) carries 'Unknown' in that field, and no field of
\* any message is null.
C11_MissingBecomesUnknown ==
    \A i \in 1..Len(publog) :
       LET a == fetched[i].article
           m == MessageOf(publog[i])
       IN  /\ Get(a, "author", None) = None => m.author = Str("Unknown")
           /\ SourceNameMissing(a) => m.source = Str("Unknown")
           /\ \A f \in DOMAIN m : m[f] # None

\* C12: building the message never fails: whatever the article's shape,
\* the call of send_to_kafka hands a record to producer.send, and once the
\* broker has acknowledged it the call returns without an exception
\* reaching the loop.
C12_EnrichmentNeverFails ==
    /\ [][(pc = "publish" /\ pc' # pc /\ sigints' = sigints)
          => (/\ pc' = "ack"
              /\ Len(publog') = Len(publog) + 1
              /\ caught' = caught)]_vars
    /\ [][(/\ pc = "acked"
           /\ kafkaResult = "metadata"
           /\ pc' # pc
           /\ sigints' = sigints)
          => (/\ pc' \in {"publish", "delay"}
              /\ caught' = caught
              /\ articles' = Tail(articles))]_vars

\* the article the for loop of line 138 is at, with its company
Current == [company_symbol |-> TRACKED_COMPANIES[idx], article |-> Head(articles)]

\* C13: nothing is deduplicated.  The articles a successful fetch (status
\* below 400, marker 'ok') returns are all handed to the for loop, whether or not an earlier pass sent
\* them, and an article that an earlier pass sent is handed to
\* producer.send again when the loop comes to it, as one more record.
C13_NoDedup ==
    /\ [][(/\ pc = "fetched"
           /\ pc' \in {"publish", "delay"}
           /\ response.net
           /\ response.code < 400
           /\ response.body.json
           /\ Get(response.body.data, "status", None) = Str("ok"))
          => (/\ articles' = response.body.data["articles"].l
              /\ Len(fetched') = Len(fetched) + Len(articles'))]_vars
    /\ [][(pc = "publish" /\ pc' # pc /\ Current \in earlier)
          => (/\ pc' = "ack"
              /\ publog' = Append(publog,
                     ProducerRecord(TRACKED_COMPANIES[idx], Head(articles), today))
              /\ articles' = articles)]_vars

\* AAPL's article, sent in an earlier pass, has been fetched and sent again
C13_Witness ==
    /\ pc = "ack"
    /\ idx = 1
    /\ [company_symbol |-> "AAPL", article |-> A_full] \in earlier
    /\ fetched = <<[company_symbol |-> "AAPL", article |-> A_full]>>
    /\ Len(publog) = 1
    /\ MessageOf(publog[1]).title = Str("Apple ships")

\* C14: when NEWS_API_KEY is not set, empty, or the placeholder, the
\* process ends with exit status 1 straight from the check: no
\* KafkaProducer is ever constructed, the loop is never entered, and no
\* HTTP request and no producer.send call is made.
C14_NoCredentialNoNetwork ==
    api_key \in {None, Str(""), Str(Placeholder)}
        => /\ pc \in {"main", "exited"}
           /\ pc = "exited" => exitStatus = 1
           /\ producer = "none"
           /\ fetchLog = <<>>
           /\ publog = <<>>
           /\ lastSleep = -1
           /\ flushes = 0 /\ closes = 0

\* the placeholder key made the process exit with status 1
C14_Witness ==
    /\ api_key = Str(Placeholder)
    /\ pc = "exited"
    /\ exitStatus = 1
    /\ event = "not_configured"
    /\ producer = "none"

\* C15: one call of fetch_news makes one HTTP request.  Within a pass of
\* the while loop the requests made are one for each company taken so
\* far, in configured order and none twice; a request gets one answer, and
\* handling the answer - a failure included - makes no further request:
\* the next request is the next company's, or the first company's in a
\* new pass.
C15_OneRequestPerFetch ==
    /\ [](/\ Len(fetchLog) = idx
          /\ \A i \in 1..Len(fetchLog) :
                fetchLog[i].company_symbol = TRACKED_COMPANIES[i]
          /\ \A i, j \in 1..Len(fetchLog) :
                i # j => fetchLog[i].company_symbol # fetchLog[j].company_symbol)
    /\ [][(pc = "fetch" /\ pc' # pc /\ sigints' = sigints)
          => (pc' = "fetched" /\ fetchLog' = fetchLog)]_vars
    /\ [][(pc = "fetched" /\ pc' # pc /\ sigints' = sigints)
          => (/\ fetchLog' = fetchLog
              /\ idx' = idx
              /\ response' = NoResponse
              /\ pc' \in {"publish", "delay", "cooldown"})]_vars
    /\ [][(fetchLog' # fetchLog)
          => \/ pc = "cycle" /\ fetchLog' = <<>>
             \/ /\ pc = "for"
                /\ Len(fetchLog') = Len(fetchLog) + 1
                /\ SubSeq(fetchLog', 1, Len(fetchLog)) = fetchLog]_vars

\* AAPL's request failed at the network level; the loop is in the
\* politeness delay with that one request made
C15_Witness ==
    /\ pc = "delay"
    /\ event = "request_failed_ConnectionError"
    /\ idx = 1
    /\ Len(fetchLog) = 1
    /\ fetchLog[1].company_symbol = "AAPL"

\* C16: the KafkaProducer that was constructed is closed exactly once in
\* the life of the process - never twice, and once by the time the process
\* has ended - and only at shutdown: once it is flushed or closed the
\* process is in its clean-up or has ended, and makes no fetch and no
\* publish.
C16_ClosedExactlyOnce ==
    /\ closes <= 1
    /\ (pc = "exited" /\ producer # "none") => (closes = 1 /\ producer = "closed")
    /\ (flushes >= 1 \/ closes >= 1) => pc \in {"close", "exited"}
    /\ producer = "closed" => pc = "exited"

\* C17: when the loop is done with a company - its fetch returned
\* articles, returned none, or failed - it sleeps PolitenessDelay seconds,
\* and only then takes the next company.  So every HTTP request but the
\* first of the run is made after a time.sleep call has returned since the
\* request before it: the politeness delay within a pass, the interval
\* sleep or the error cooldown between passes.
C17_SleepBetweenFetches ==
    /\ [][(/\ pc \in {"fetched", "acked"}
           /\ pc' \notin {pc, "publish", "cooldown"}
           /\ sigints' = sigints)
          => (pc' = "delay" /\ sleepSecs' = PolitenessDelay /\ idx' = idx)]_vars
    /\ [][(pc = "delay" /\ pc' # pc /\ sigints' = sigints)
          => (pc' = "for" /\ lastSleep' = PolitenessDelay)]_vars
    /\ [][(Len(fetchLog') = Len(fetchLog) + 1)
          => (/\ lastSleep # 0
              /\ idx >= 1 => lastSleep = PolitenessDelay
              /\ idx = 0 => lastSleep \in {-1, interval_seconds, ErrorCooldown})]_vars
    /\ [](lastSleep = -1 => fetchLog = <<>>)

\* AAPL's fetch gave no article; the politeness delay has returned and
\* MSFT is the next company
C17_Witness ==
    /\ pc = "for"
    /\ idx = 1
    /\ Len(fetchLog) = 1
    /\ fetched = <<>>
    /\ lastSleep = PolitenessDelay
    /\ event = "delay_done"

\* C18: an exception that escapes while the k-th company is processed
\* ends the pass there: the loop goes straight to the ErrorCooldown sleep,
\* with no further request and no interval sleep, and from the cooldown to
\* a new pass, which computes the window anew from the current date and
\* begins with the first company again.  A company other than the first is
\* only ever taken after the politeness delay of the one before it, which
\* is reached only when that one was processed without an exception; so a
\* company that raises in every pass keeps the later ones from being
\* fetched.
C18_ErrorAbortsPass ==
    /\ [][(EscapesHere /\ pc' # pc /\ sigints' = sigints)
          => (/\ pc' = "cooldown"
              /\ sleepSecs' = ErrorCooldown
              /\ idx' = idx
              /\ UNCHANGED <<fetchLog, publog, lastSleep>>)]_vars
    /\ [][(pc = "cooldown" /\ pc' # pc /\ sigints' = sigints)
          => (/\ pc' = "cycle"
              /\ lastSleep' = ErrorCooldown
              /\ UNCHANGED <<fetchLog, publog>>)]_vars
    /\ [][(pc = "cycle" /\ pc' # pc /\ sigints' = sigints)
          => (/\ pc' = "for"
              /\ idx' = 0
              /\ to_date' = today
              /\ from_date' = today - days_back
              /\ fetchLog' = <<>>
              /\ publog' = <<>>)]_vars
    /\ [][(pc = "for" /\ idx = 0 /\ pc' # pc /\ sigints' = sigints)
          => (/\ pc' = "fetch"
              /\ Len(fetchLog') = 1
              /\ fetchLog'[1].company_symbol = TRACKED_COMPANIES[1]
              /\ fetchLog'[1].to = isoformat(to_date)
              /\ fetchLog'[1].from = isoformat(from_date))]_vars
    /\ [][(pc' = "delay" /\ pc # "delay")
          => (pc \in {"fetched", "acked"} /\ ~EscapesHere /\ caught' = caught)]_vars
    /\ [](pc = "for" /\ idx >= 1 => lastSleep = PolitenessDelay)
    /\ [](pc = "interval" => idx = Len(TRACKED_COMPANIES))

\* a KeyError ended a pass; the cooldown has returned, the date has changed
\* meanwhile, and the new pass starts at the first company with the window
\* of the new date
C18_Witness ==
    /\ pc = "for"
    /\ idx = 0
    /\ caught = "KeyError"
    /\ lastSleep = ErrorCooldown
    /\ today = StartDay + 1
    /\ to_date = StartDay + 1
    /\ from_date = StartDay + 1 - days_back
    /\ fetchLog = <<>>

\* C19: a 2xx response whose body has the marker 'ok' and an article
\* array makes fetch_news return that array to the loop, raising nothing,
\* whether or not the body also has the total-result count.
C19_CountIsOptional ==
    [][(/\ pc = "fetched"
        /\ pc' # pc
        /\ sigints' = sigints
        /\ response.net
        /\ response.code \in 200..299
        /\ response.body.json
        /\ Get(response.body.data, "status", None) = Str("ok")
        /\ "articles" \in DOMAIN response.body.data)
       => (/\ articles' = response.body.data["articles"].l
           /\ caught' = caught
           /\ pc' \in {"publish", "delay"})]_vars

=============================================================================
